---- MODULE Spec2Model ----
(***************************************************************************)
(* The user-management backend: the token service (createToken,            *)
(* deleteToken, validateToken, the garbage collector and its timer),       *)
(* setEmailVerified, updateLastActive, the guards of the routes (CSRF,     *)
(* authentication, strategy, verification) and the request handlers of     *)
(* the auth and user routers.                                              *)
(*                                                                         *)
(* The database is shared state; every `await` of a handler is a point at  *)
(* which other requests, timers and the clock may take steps.              *)
(***************************************************************************)
EXTENDS Integers, FiniteSets, Sequences, TLC

\* ------------------------------------------------------------------ bounds
MaxTime == 3          \* the clock stops after MaxTime seconds
MaxIssued == 2        \* token rows ever inserted
MaxTimers == 2        \* interval timers ever created by setInterval
MaxRequests == 4      \* HTTP requests ever started
MaxMailed == 3        \* token rows ever inserted by request handlers

\* ------------------------------------------------------- program constants
SEC_IN_MS == 1000
MIN_IN_MS == 60000
HOUR_IN_MS == 3600000
DEFAULT_INTERVAL == 30 * MIN_IN_MS
maxAttempt == 3
VERIFY_EMAIL_TOKEN_TTL_SEC == 1   \* env; scaled to the model's clock

RESET_PASSWORD == "resetPassword"
VERIFY_EMAIL == "verifyEmail"
TokenPurpose == {RESET_PASSWORD, VERIFY_EMAIL}
LOCAL_STRATEGY == "local"
GOOGLE_OAUTH == "googleOAuth"

\* ------------------------------------------------------------ input sets
Users == {"u1", "u2"}              \* user rows, named by their unique key
TokenStrings == {"tA", "tB"}       \* values crypto.randomBytes may produce
TtlSecs == {1, 2}                  \* ttlSec arguments
Intervals == {DEFAULT_INTERVAL, HOUR_IN_MS}
Procs == {"p1", "p2"}              \* concurrent callers / requests
GcSlots == {1, 2}                  \* overlapping deleteExpiredTokens runs
Passwords == {"pw1", "pw2"}
ExternalIds == {"g1", "g2"}           \* the ids of Google accounts
LogoutErrors == {"none", "save", "regenerate"}   \* what req.logout ends with        \* passwords a client may type
Names == {"n1", "n2"}              \* profile names
CsrfTokens == {"k1", "k2"}         \* values of the x-csrf-token header

VARIABLES
  now,         \* Date.now(), in ms
  users,       \* the users table: a function from the keys of its rows
  tokens,      \* the tokens table: a function from the strings of its rows
  issued,      \* number of rows ever inserted in the tokens table
  gcInterval,  \* tokenService's module variable gcInterval
  timers,      \* the interval timers the runtime holds active
  timerSeq,    \* number of timers ever created
  gcRuns,      \* deleteExpiredTokens calls in flight: their captured `now`
  gcLog,       \* the levels above info deleteExpiredTokens has logged at
  sessions,    \* the users some client holds an authenticated session of
  activity,    \* per caller: the updateLastActive call it has running
  logins,      \* per user: the updateLastActive(id, true) calls completed
  procs,       \* per caller: the frame of the call or request it runs
  started,     \* number of requests ever started
  last         \* the service call made by the last step, with its result

vars == <<now, users, tokens, issued, gcInterval, timers, timerSeq, gcRuns,
          gcLog, sessions, activity, logins, procs, started, last>>

\* --------------------------------------------------------------- values
Null == [token |-> "null"]           \* the null a SelectToken | null carries
Thrown == [token |-> "error"]        \* a call that ended by throwing
NoTimer == [id |-> 0]                \* gcInterval === null
NoRun == 0 - 1                       \* a free slot of gcRuns
NoCall == [op |-> "none"]
NoDate == 0 - 1                      \* a null timestamp
NoTask == [pc |-> "none"]
NoUser == [authStrategy |-> "none"]
NoHash == [hash |-> "null"]          \* passwordHash of a row without one
Anonymous == ""                      \* a request without a session
NoCsrf == ""                         \* a missing CSRF cookie or header
NoPassword == ""                     \* options.password left out
NoExternalId == ""                   \* options.externalId left out, a null column
NoEmail == ""                        \* a Google profile without emails

\* The frame of a call or request: its position and its local variables.
Frame(op, pc) ==
  [op |-> op, pc |-> pc, userId |-> "", purpose |-> "", ttlSec |-> 0,
   attempt |-> 0, error |-> "none", tokenRecord |-> Null, token |-> "",
   user |-> NoUser, outcome |-> 0, req |-> 0,
   sess |-> Anonymous, cookie |-> NoCsrf, header |-> NoCsrf, message |-> "",
   password |-> "", oldPassword |-> "", externalId |-> NoExternalId,
   ended |-> 0]
Idle == Frame("none", "idle")

\* The frame of a request a guard ended, and of one the handler answered.
Guarded(f, g) ==
  [f EXCEPT !.pc = "done", !.outcome = g.status, !.error = g.error,
            !.ended = @ + 1]
Answer(f, status) == [f EXCEPT !.pc = "done", !.outcome = status, !.ended = @ + 1]

Without(tbl, keys) == [k \in DOMAIN tbl \ keys |-> tbl[k]]
With(tbl, key, row) == [k \in DOMAIN tbl \cup {key} |-> IF k = key THEN row ELSE tbl[k]]

\* ------------------------------------------------------------ tokenService
\* The row createToken inserts.
TokenRow(token, userId, purpose, ttlSec, clock, serial) ==
  [token |-> token, purpose |-> purpose, userId |-> userId,
   createdAt |-> clock, expire |-> clock + ttlSec * SEC_IN_MS,
   serial |-> serial]

\* db.insert(tokens): "ok", or the error it throws.
InsertError_Upsert(tbl, token, dbErr) == IF dbErr THEN "store" ELSE "ok"
InsertError(tbl, token, dbErr) ==
  IF dbErr THEN "store"
  ELSE IF token \in DOMAIN tbl THEN "conflict"
  ELSE "ok"

\* What the catch block of createToken does with an error at this attempt.
AfterError(attempt) == IF attempt < maxAttempt THEN "retry" ELSE "throw"

\* validateToken's result for a table and a clock value.
validateToken_AnyPurpose(tbl, clock, token, purpose) ==
  IF token \notin DOMAIN tbl THEN Null
  ELSE IF tbl[token].expire < clock THEN Null
  ELSE tbl[token]
validateToken(tbl, clock, token, purpose) ==
  IF token \notin DOMAIN tbl THEN Null
  ELSE IF tbl[token].purpose # purpose THEN Null
  ELSE IF tbl[token].expire < clock THEN Null
  ELSE tbl[token]

\* The table after db.delete(tokens).where(eq(tokens.token, token)).
deleteToken_NoWhere(tbl, token) == Without(tbl, DOMAIN tbl)
deleteToken(tbl, token) == Without(tbl, {token})

\* The table after db.delete(tokens).where(lt(tokens.expire, at)).
deleteExpiredTokens_Lte(tbl, at) ==
  Without(tbl, {t \in DOMAIN tbl : tbl[t].expire <= at})
deleteExpiredTokens(tbl, at) ==
  Without(tbl, {t \in DOMAIN tbl : tbl[t].expire < at})

\* ------------------------------------------------------------------ Init
Init ==
  /\ now = 0
  /\ users = << >>
  /\ tokens = << >>
  /\ issued = 0
  /\ gcInterval = NoTimer
  /\ timers = {}
  /\ timerSeq = 0
  /\ gcRuns = [s \in GcSlots |-> NoRun]
  /\ gcLog = {}
  /\ sessions = {}
  /\ activity = [p \in Procs |-> NoTask]
  /\ logins = [u \in Users |-> 0]
  /\ procs = [p \in Procs |-> Idle]
  /\ started = 0
  /\ last = NoCall

TokenVars == <<tokens, issued>>
GcVars == <<gcInterval, timers, timerSeq, gcRuns, gcLog>>
AuthVars == <<sessions, activity, logins>>

\* ----------------------------------------------------------------- clock
Tick ==
  /\ now + SEC_IN_MS <= MaxTime * SEC_IN_MS
  /\ now' = now + SEC_IN_MS
  /\ last' = NoCall
  /\ UNCHANGED <<users, AuthVars, TokenVars, GcVars, procs, started>>

\* ----------------------------------------------------------------- users
\* bcrypt.hash and bcrypt.compare.
bcryptHash(password) == [hash |-> password]
bcryptCompare_Always(password, passwordHash) == TRUE
bcryptCompare(password, passwordHash) == passwordHash = bcryptHash(password)

\* userService.createUser: the row it inserts.
InsertUser_Verified(authStrategy, password, externalId, name) ==
  [authStrategy |-> authStrategy,
   isEmailVerified |-> TRUE,
   passwordHash |-> IF password = NoPassword THEN NoHash ELSE bcryptHash(password),
   externalId |-> externalId,
   name |-> name, loginCount |-> 0, lastActiveAt |-> NoDate]
InsertUser(authStrategy, password, externalId, name) ==
  [authStrategy |-> authStrategy,
   isEmailVerified |-> (authStrategy # LOCAL_STRATEGY),
   passwordHash |-> IF password = NoPassword THEN NoHash ELSE bcryptHash(password),
   externalId |-> externalId,
   name |-> name, loginCount |-> 0, lastActiveAt |-> NoDate]

\* The row of a signup with the strategy's first password and name.
UserRow == InsertUser(LOCAL_STRATEGY, "pw1", NoExternalId, "n1")

\* The unique constraints of the users table: the email, and the pair of
\* strategy and external id (a null external id equals no other).
UniqueViolation_NoConstraint(utbl, email, row) == FALSE
UniqueViolation(utbl, email, row) ==
  \/ email \in DOMAIN utbl
  \/ /\ row.externalId # NoExternalId
     /\ \E u \in DOMAIN utbl : /\ utbl[u].authStrategy = row.authStrategy
                                /\ utbl[u].externalId = row.externalId

\* userService.createUser(options): the error it throws, or "none" and the
\* table with the inserted row.
createUser_NoChecks(utbl, options) ==
  LET row == InsertUser(options.authStrategy, options.password,
                        options.externalId, options.name)
  IN IF UniqueViolation(utbl, options.email, row)
       THEN [error |-> "23505", users |-> utbl]
     ELSE [error |-> "none", users |-> With(utbl, options.email, row)]
createUser(utbl, options) ==
  LET row == InsertUser(options.authStrategy, options.password,
                        options.externalId, options.name)
  IN IF options.authStrategy = LOCAL_STRATEGY /\ options.password = NoPassword
       THEN [error |-> "Password is required for local strategy", users |-> utbl]
     ELSE IF options.authStrategy # LOCAL_STRATEGY
             /\ options.externalId = NoExternalId
       THEN [error |-> "External ID is required for non-local strategy",
             users |-> utbl]
     ELSE IF UniqueViolation(utbl, options.email, row)
       THEN [error |-> "23505", users |-> utbl]
     ELSE [error |-> "none", users |-> With(utbl, options.email, row)]

\* The options of a createUser call.
Options(email, authStrategy, password, externalId, name) ==
  [email |-> email, authStrategy |-> authStrategy, password |-> password,
   externalId |-> externalId, name |-> name]

\* Token rows a caller may still insert: in-flight createToken calls count.
Inserting == {p \in Procs : procs[p].pc \in {"login", "delete", "insert"}}
CanIssue == issued + Cardinality(Inserting) < MaxIssued
CanMail == issued + Cardinality(Inserting) < MaxMailed
Free(p) == procs[p].pc \in {"idle", "returned", "thrown", "done"}

\* ---------------------------------------------- createToken, called directly
createTokenCall(p, userId, purpose, ttlSec) ==
  /\ Free(p)
  /\ userId \in DOMAIN users
  /\ CanIssue
  /\ procs' = [procs EXCEPT ![p] =
       [Frame("createToken", "insert") EXCEPT
          !.userId = userId, !.purpose = purpose, !.ttlSec = ttlSec,
          !.attempt = 1]]
  /\ last' = NoCall
  /\ UNCHANGED <<now, users, AuthVars, TokenVars, GcVars, started>>

\* One pass of createToken's loop: draw a token, insert, return or catch.
createTokenAttempt(p, token, dbErr) ==
  LET f == procs[p]
      err == InsertError(tokens, token, dbErr)
      row == TokenRow(token, f.userId, f.purpose, f.ttlSec, now, issued + 1)
  IN
  /\ f.pc = "insert"
  /\ IF err = "ok"
       THEN /\ tokens' = With(tokens, token, row)
            /\ issued' = issued + 1
            /\ procs' = [procs EXCEPT ![p] =
                 [f EXCEPT !.tokenRecord = row,
                           !.pc = IF f.op = "createToken" THEN "returned"
                                  ELSE "send"]]
       ELSE /\ UNCHANGED TokenVars
            /\ procs' = [procs EXCEPT ![p] =
                 IF AfterError(f.attempt) = "retry"
                   THEN [f EXCEPT !.attempt = @ + 1, !.error = err]
                 ELSE IF f.op = "createToken"
                   THEN [f EXCEPT !.pc = "thrown", !.error = err]
                 ELSE [Answer(f, 500) EXCEPT !.error = err]]
  /\ last' = NoCall
  /\ UNCHANGED <<now, users, AuthVars, GcVars, started>>

\* ------------------------------------- validateToken, deleteToken, directly
validateTokenCall(token, purpose, dbErr) ==
  /\ last' = [op |-> "validateToken", token |-> token, purpose |-> purpose,
              dbErr |-> dbErr,
              result |-> IF dbErr THEN Thrown
                         ELSE validateToken(tokens, now, token, purpose)]
  /\ UNCHANGED <<now, users, AuthVars, TokenVars, GcVars, procs, started>>

deleteTokenCall(token, dbErr) ==
  /\ tokens' = IF dbErr THEN tokens ELSE deleteToken(tokens, token)
  /\ last' = [op |-> "deleteToken", token |-> token, dbErr |-> dbErr,
              rowCount |-> IF dbErr \/ token \notin DOMAIN tokens THEN 0 ELSE 1,
              result |-> IF dbErr THEN "error" ELSE "ok"]
  /\ UNCHANGED <<now, users, AuthVars, issued, GcVars, procs, started>>

createUserCall(u, authStrategy, password, externalId) ==
  LET options == Options(u, authStrategy, password, externalId, "n1")
      r == createUser(users, options)
  IN
  /\ u \notin DOMAIN users
  /\ users' = r.users
  /\ last' = [op |-> "createUser", options |-> options, error |-> r.error]
  /\ UNCHANGED <<now, AuthVars, TokenVars, GcVars, procs, started>>

\* --------------------------------------------------------- authService
\* setEmailVerified's transaction: both tables after it commits.
setEmailVerified_KeepToken(utbl, ttbl, rec) ==
  [users |-> [u \in DOMAIN utbl |->
                IF u = rec.userId THEN [utbl[u] EXCEPT !.isEmailVerified = TRUE]
                ELSE utbl[u]],
   tokens |-> ttbl]
setEmailVerified(utbl, ttbl, rec) ==
  [users |-> [u \in DOMAIN utbl |->
                IF u = rec.userId THEN [utbl[u] EXCEPT !.isEmailVerified = TRUE]
                ELSE utbl[u]],
   tokens |-> Without(ttbl, {rec.token})]

\* The checks sendVerificationEmail makes before it calls the mail provider.
sendVerificationEmailAllowed(userId, user, rec) ==
  /\ userId = rec.userId
  /\ rec.purpose = VERIFY_EMAIL
  /\ user.authStrategy = LOCAL_STRATEGY
  /\ ~user.isEmailVerified

\* tokenService.deleteTokensBy(userId, purpose): the table after it.
deleteTokensBy(tbl, userId, purpose) ==
  Without(tbl, {t \in DOMAIN tbl :
                  tbl[t].userId = userId /\ tbl[t].purpose = purpose})

\* ------------------------------------------------------------- middleware
\* What a guard does: it calls next(), answers with a status, or passes an
\* error to next(error).
Pass == [status |-> 0, error |-> "none"]
Respond(status) == [status |-> status, error |-> "none"]

\* internalServerErrorHandler, the app's only error handler for the JSON
\* routes: the answer to every error passed to next(error).
internalServerErrorHandler(error) == [status |-> 500, error |-> error]

\* csrf-csrf's validateRequest: the cookie is one the server signed and the
\* x-csrf-token header repeats its token.
doubleCsrfValid(cookie, header) == cookie \in CsrfTokens /\ header = cookie

\* doubleCsrfProtection calls next(invalidCsrfTokenError) for an invalid pair.
doubleCsrfProtection(cookie, header) ==
  IF doubleCsrfValid(cookie, header) THEN Pass
  ELSE internalServerErrorHandler("EBADCSRFTOKEN")

ensureAuthenticated_NoForbidden(shoudBeAuthenticated, sess) ==
  IF shoudBeAuthenticated /\ sess = Anonymous THEN Respond(401)
  ELSE Pass
ensureAuthenticated(shoudBeAuthenticated, sess) ==
  IF shoudBeAuthenticated /\ sess = Anonymous THEN Respond(401)
  ELSE IF ~shoudBeAuthenticated /\ sess # Anonymous THEN Respond(403)
  ELSE Pass

ensureEmailVerified_NoForbidden(shoudBeVerified, user) ==
  IF user = NoUser THEN internalServerErrorHandler("User not found")
  ELSE IF ~shoudBeVerified /\ user.isEmailVerified THEN Respond(409)
  ELSE Pass
ensureEmailVerified(shoudBeVerified, user) ==
  IF user = NoUser THEN internalServerErrorHandler("User not found")
  ELSE IF shoudBeVerified /\ ~user.isEmailVerified THEN Respond(403)
  ELSE IF ~shoudBeVerified /\ user.isEmailVerified THEN Respond(409)
  ELSE Pass

ensureAuthStrategy(strategy, user) ==
  IF user = NoUser THEN internalServerErrorHandler("User not found")
  ELSE IF user.authStrategy # strategy THEN Respond(403)
  ELSE Pass

\* The guards of a route run in the order the route lists them: the first
\* that does not call next() ends the request.
Chain(guards) ==
  IF \A i \in DOMAIN guards : guards[i] = Pass THEN Pass
  ELSE guards[CHOOSE i \in DOMAIN guards :
                /\ guards[i] # Pass
                /\ \A j \in DOMAIN guards : j < i => guards[j] = Pass]

\* A client sends the session cookie of u once the response that sets it has
\* arrived: the request that logged u in has answered.
HoldsSession(u) ==
  /\ u \in sessions
  /\ \A p \in Procs :
       (procs[p].op \in {"signup", "login", "google"} /\ procs[p].userId = u)
          => procs[p].pc = "done"

\* The sessions a request may carry.
Carries(sess) == sess = Anonymous \/ HoldsSession(sess)

\* The frame of a request of route op: passport.session() has loaded req.user
\* from the row of the session's user.
Request(op, sess, cookie, header) ==
  [Frame(op, "guards") EXCEPT
     !.sess = sess, !.cookie = cookie, !.header = header,
     !.user = IF sess = Anonymous THEN NoUser ELSE users[sess],
     !.req = started + 1]


\* --------------------------------------------------- POST /users/me (signup)
\* ensureAuthenticated(false), then createUser inserts the row or fails on
\* the unique email (23505), answered 409.
createUserReqHandler(p, sess, u) ==
  LET f == [Request("signup", sess, NoCsrf, NoCsrf) EXCEPT !.userId = u]
      g == ensureAuthenticated(FALSE, sess)
      r == createUser(users, Options(u, LOCAL_STRATEGY, "pw1", NoExternalId, "n1"))
  IN
  /\ Free(p)
  /\ activity[p] = NoTask
  /\ started < MaxRequests
  /\ CanMail
  /\ Carries(sess)
  /\ started' = started + 1
  /\ IF g # Pass
       THEN /\ users' = users
            /\ procs' = [procs EXCEPT ![p] = Guarded(f, g)]
       ELSE IF r.error = "23505"
       THEN /\ users' = users
            /\ procs' = [procs EXCEPT ![p] = Answer(f, 409)]
       ELSE /\ users' = r.users
            /\ procs' = [procs EXCEPT ![p] =
                 [f EXCEPT !.pc = "login", !.user = r.users[u]]]
  /\ last' = NoCall
  /\ UNCHANGED <<now, AuthVars, TokenVars, GcVars>>

\* A call of updateLastActive(userId, isLogin) made by handler `op`, about to
\* open its transaction.
updateLastActive(op, userId, isLogin) ==
  [pc |-> "select", op |-> op, userId |-> userId, isLogin |-> isLogin,
   loginCount |-> 0, lastActiveAt |-> NoDate]

\* req.login's callback: on success the session is the user's and
\* updateLastActive(user.id, true) is started without being awaited; either
\* way createToken is entered.
signupLogin(p, loginError) ==
  LET f == procs[p]
  IN /\ f.op = "signup"
     /\ f.pc = "login"
     /\ sessions' = IF loginError THEN sessions ELSE sessions \cup {f.userId}
     /\ activity' = IF loginError THEN activity
                    ELSE [activity EXCEPT ![p] =
                            updateLastActive("signup", f.userId, TRUE)]
     /\ procs' = [procs EXCEPT ![p] =
          [f EXCEPT !.pc = "insert", !.purpose = VERIFY_EMAIL,
                    !.ttlSec = VERIFY_EMAIL_TOKEN_TTL_SEC, !.attempt = 1,
                    !.error = IF loginError THEN "login" ELSE "none"]]
     /\ last' = NoCall
     /\ UNCHANGED <<now, users, logins, TokenVars, GcVars, started>>

\* sendVerificationEmail and the response of signup (201) or resend (200);
\* an error, the mail provider's among them, goes to the error handler (500).
sendVerificationEmailStep(p, mailErr) ==
  LET f == procs[p]
      allowed == sendVerificationEmailAllowed(f.userId, f.user, f.tokenRecord)
  IN /\ f.pc = "send"
     /\ procs' = [procs EXCEPT ![p] =
          IF ~allowed THEN [Answer(f, 500) EXCEPT !.error = "not allowed"]
          ELSE IF mailErr THEN [Answer(f, 500) EXCEPT !.error = "sendgrid"]
          ELSE Answer(f, IF f.op = "signup" THEN 201 ELSE 200)]
     /\ last' = NoCall
     /\ UNCHANGED <<now, users, AuthVars, TokenVars, GcVars, started>>

\* ------------------------------------------------------ updateLastActive
\* The transaction's first statement: updateValues takes `new Date()` and,
\* for a login, the selected loginCount + 1.
updateLastActiveSelect(p) ==
  LET a == activity[p]
  IN /\ a.pc = "select"
     /\ activity' = [activity EXCEPT ![p] =
          [a EXCEPT !.pc = "update", !.lastActiveAt = now,
                    !.loginCount = IF a.isLogin THEN users[a.userId].loginCount + 1
                                   ELSE 0]]
     /\ last' = NoCall
     /\ UNCHANGED <<now, users, sessions, logins, TokenVars, GcVars, procs, started>>

\* The row after tx.update(users).set(updateValues): loginCount is among the
\* values only for a login.
updateValues(row, a) ==
  [row EXCEPT !.lastActiveAt = a.lastActiveAt,
              !.loginCount = IF a.isLogin THEN a.loginCount ELSE @]

\* The update and the commit: the call returns the updated row.
updateLastActiveUpdate(p) ==
  LET a == activity[p]
  IN /\ a.pc = "update"
     /\ users' = [users EXCEPT ![a.userId] = updateValues(@, a)]
     /\ activity' = [activity EXCEPT ![p] = NoTask]
     /\ logins' = IF a.isLogin THEN [logins EXCEPT ![a.userId] = @ + 1]
                   ELSE logins
     /\ last' = NoCall
     /\ UNCHANGED <<now, sessions, TokenVars, GcVars, procs, started>>

\* ------------------------------------- POST /auth/send-verification-email
\* doubleCsrfProtection, ensureAuthenticated(true), ensureAuthStrategy(local)
\* and ensureEmailVerified(false) answer or let the request pass.
sendVerificationEmailReqHandler(p, sess, cookie, header) ==
  LET f == [Request("resend", sess, cookie, header) EXCEPT !.userId = sess]
      g == Chain(<<doubleCsrfProtection(cookie, header),
                   ensureAuthenticated(TRUE, sess),
                   ensureAuthStrategy(LOCAL_STRATEGY, f.user),
                   ensureEmailVerified(FALSE, f.user)>>)
  IN
  /\ Free(p)
  /\ started < MaxRequests
  /\ CanMail
  /\ Carries(sess)
  /\ started' = started + 1
  /\ procs' = [procs EXCEPT ![p] =
       IF g # Pass THEN Guarded(f, g) ELSE [f EXCEPT !.pc = "delete"]]
  /\ last' = NoCall
  /\ UNCHANGED <<now, users, AuthVars, TokenVars, GcVars>>

\* await deleteTokensBy(user.id, VERIFY_EMAIL), then createToken is entered.
resendDelete(p) ==
  LET f == procs[p]
  IN /\ f.op = "resend"
     /\ f.pc = "delete"
     /\ tokens' = deleteTokensBy(tokens, f.userId, VERIFY_EMAIL)
     /\ procs' = [procs EXCEPT ![p] =
          [f EXCEPT !.pc = "insert", !.purpose = VERIFY_EMAIL,
                    !.ttlSec = VERIFY_EMAIL_TOKEN_TTL_SEC, !.attempt = 1]]
     /\ last' = NoCall
     /\ UNCHANGED <<now, users, AuthVars, issued, GcVars, started>>

\* ------------------------------------------- GET /auth/verify-email/:token
\* validateToken(token, VERIFY_EMAIL): null is answered 400.
verifyEmailReqHandler(p, token) ==
  LET rec == validateToken(tokens, now, token, VERIFY_EMAIL)
  IN /\ Free(p)
     /\ started < MaxRequests
     /\ started' = started + 1
     /\ procs' = [procs EXCEPT ![p] =
          [(IF rec = Null
              THEN Answer(Frame("verifyEmail", "guards"), 400)
              ELSE [Frame("verifyEmail", "setEmailVerified") EXCEPT
                      !.tokenRecord = rec])
           EXCEPT !.token = token, !.req = started + 1]]
     /\ last' = NoCall
     /\ UNCHANGED <<now, users, AuthVars, TokenVars, GcVars>>

\* await setEmailVerified(tokenRecord), then the success response; a failed
\* transaction rolls back and goes to the error handler (500).
verifyEmailCommit(p, dbErr) ==
  LET f == procs[p]
      r == setEmailVerified(users, tokens, f.tokenRecord)
      failed == dbErr \/ f.tokenRecord.purpose # VERIFY_EMAIL
  IN /\ f.op = "verifyEmail"
     /\ f.pc = "setEmailVerified"
     /\ users' = IF failed THEN users ELSE r.users
     /\ tokens' = IF failed THEN tokens ELSE r.tokens
     /\ procs' = [procs EXCEPT ![p] =
          Answer(f, IF failed THEN 500 ELSE 302)]
     /\ last' = NoCall
     /\ UNCHANGED <<now, AuthVars, issued, GcVars, started>>

\* ------------------------------------------------------- POST /auth/login
\* The verify function of the local strategy: the user, or false with the
\* message the handler sends on.
localStrategy(utbl, email, password) ==
  IF email \notin DOMAIN utbl
    THEN [user |-> FALSE, message |-> "Account not found"]
  ELSE IF utbl[email].authStrategy # LOCAL_STRATEGY
    THEN [user |-> FALSE, message |-> "Try logging in with other methods"]
  ELSE IF ~bcryptCompare(password, utbl[email].passwordHash)
    THEN [user |-> FALSE, message |-> "Incorrect password"]
  ELSE [user |-> TRUE, message |-> ""]

\* ensureAuthenticated(false), passport.authenticate('local'), then either
\* 401 with info.message, or req.logIn and the awaited updateLastActive.
loginReqHandler(p, sess, email, password) ==
  LET f == [Request("login", sess, NoCsrf, NoCsrf) EXCEPT !.userId = email]
      g == ensureAuthenticated(FALSE, sess)
      r == localStrategy(users, email, password)
  IN
  /\ Free(p)
  /\ activity[p] = NoTask
  /\ started < MaxRequests
  /\ Carries(sess)
  /\ started' = started + 1
  /\ IF g # Pass
       THEN /\ procs' = [procs EXCEPT ![p] = Guarded(f, g)]
            /\ UNCHANGED <<sessions, activity>>
       ELSE IF ~r.user
       THEN /\ procs' = [procs EXCEPT ![p] =
                 [Answer(f, 401) EXCEPT !.message = r.message]]
            /\ UNCHANGED <<sessions, activity>>
       ELSE /\ procs' = [procs EXCEPT ![p] =
                 [f EXCEPT !.pc = "updateLastActive", !.user = users[email]]]
            /\ sessions' = sessions \cup {email}
            /\ activity' = [activity EXCEPT ![p] =
                 updateLastActive("login", email, TRUE)]
  /\ last' = NoCall
  /\ UNCHANGED <<now, users, logins, TokenVars, GcVars>>

\* The awaited updateLastActive has returned: the handler answers.
updateLastActiveReturn(p) ==
  LET f == procs[p]
  IN /\ f.pc = "updateLastActive"
     /\ activity[p] = NoTask
     /\ procs' = [procs EXCEPT ![p] =
          Answer([f EXCEPT !.user = users[f.userId]],
                 IF f.op = "google" THEN 302 ELSE 200)]
     /\ last' = NoCall
     /\ UNCHANGED <<now, users, AuthVars, TokenVars, GcVars, started>>

\* ------------------------------------------- GET /auth/google/callback
\* The profile Google hands to the verify function.
Profile(id, email, displayName) ==
  [id |-> id, email |-> email, displayName |-> displayName]

\* userService.findUserByExternalId: the user's key, or NoEmail for null.
findUserByExternalId(utbl, authStrategy, externalId) ==
  LET found == {u \in DOMAIN utbl : /\ utbl[u].authStrategy = authStrategy
                                    /\ utbl[u].externalId = externalId}
  IN IF found = {} THEN NoEmail ELSE CHOOSE u \in found : TRUE

\* The verify function of the Google strategy: the user of the profile's
\* external id; without one 400 for a profile that has no email, else
\* createUser, whose 23505 is answered 409.
googleStrategy_ByEmail(utbl, profile) ==
  LET r == createUser(utbl, Options(profile.email, GOOGLE_OAUTH, NoPassword,
                                    profile.id, profile.displayName))
  IN IF profile.email \in DOMAIN utbl
       THEN [status |-> 0, error |-> "none", user |-> profile.email, users |-> utbl]
     ELSE IF profile.email = NoEmail
       THEN [status |-> 400, error |-> "none", user |-> NoEmail, users |-> utbl]
     ELSE IF r.error = "23505"
       THEN [status |-> 409, error |-> "none", user |-> NoEmail, users |-> utbl]
     ELSE IF r.error # "none"
       THEN [status |-> 500, error |-> r.error, user |-> NoEmail, users |-> utbl]
     ELSE [status |-> 0, error |-> "none", user |-> profile.email,
           users |-> r.users]
googleStrategy(utbl, profile) ==
  LET user == findUserByExternalId(utbl, GOOGLE_OAUTH, profile.id)
      r == createUser(utbl, Options(profile.email, GOOGLE_OAUTH, NoPassword,
                                    profile.id, profile.displayName))
  IN IF user # NoEmail
       THEN [status |-> 0, error |-> "none", user |-> user, users |-> utbl]
     ELSE IF profile.email = NoEmail
       THEN [status |-> 400, error |-> "none", user |-> NoEmail, users |-> utbl]
     ELSE IF r.error = "23505"
       THEN [status |-> 409, error |-> "none", user |-> NoEmail, users |-> utbl]
     ELSE IF r.error # "none"
       THEN [status |-> 500, error |-> r.error, user |-> NoEmail, users |-> utbl]
     ELSE [status |-> 0, error |-> "none", user |-> profile.email,
           users |-> r.users]

\* The handler's own req.isAuthenticated() check (403), then the strategy:
\* an HttpError is answered with its status, another error goes to the
\* error handler; else req.logIn and the awaited updateLastActive(user.id, true).
googleAuthCallbackReqHandler(p, sess, profile) ==
  LET f == [Request("google", sess, NoCsrf, NoCsrf) EXCEPT
              !.userId = profile.email, !.externalId = profile.id]
      r == googleStrategy(users, profile)
  IN
  /\ Free(p)
  /\ activity[p] = NoTask
  /\ started < MaxRequests
  /\ Carries(sess)
  /\ started' = started + 1
  /\ IF sess # Anonymous
       THEN /\ procs' = [procs EXCEPT ![p] = Answer(f, 403)]
            /\ UNCHANGED <<users, sessions, activity>>
       ELSE IF r.status # 0
       THEN /\ procs' = [procs EXCEPT ![p] =
                 [Answer(f, r.status) EXCEPT !.error = r.error]]
            /\ UNCHANGED <<users, sessions, activity>>
       ELSE /\ users' = r.users
            /\ procs' = [procs EXCEPT ![p] =
                 [f EXCEPT !.pc = "updateLastActive", !.userId = r.user,
                           !.user = r.users[r.user]]]
            /\ sessions' = sessions \cup {r.user}
            /\ activity' = [activity EXCEPT ![p] =
                 updateLastActive("google", r.user, TRUE)]
  /\ last' = NoCall
  /\ UNCHANGED <<now, logins, TokenVars, GcVars>>

\* ------------------------------------------------------ POST /auth/logout
\* doubleCsrfProtection, ensureAuthenticated(true), then req.logout and 200.
\* The callback of a failed req.logout calls next(error) and, not returning,
\* goes on to res.status(200).json: the request is ended twice, and the
\* answer on the wire is the error handler's. passport saves the session
\* without its user and then regenerates it: a failed save leaves the
\* stored session as it was.
logoutReqHandler(p, sess, cookie, header, logoutError) ==
  LET f == [Request("logout", sess, cookie, header) EXCEPT !.userId = sess]
      g == Chain(<<doubleCsrfProtection(cookie, header),
                   ensureAuthenticated(TRUE, sess)>>)
  IN
  /\ Free(p)
  /\ started < MaxRequests
  /\ Carries(sess)
  /\ started' = started + 1
  /\ IF g # Pass
       THEN /\ procs' = [procs EXCEPT ![p] = Guarded(f, g)]
            /\ sessions' = sessions
       ELSE IF logoutError # "none"
       THEN /\ procs' = [procs EXCEPT ![p] =
                 [Guarded(f, internalServerErrorHandler(logoutError))
                    EXCEPT !.ended = @ + 1]]
            /\ sessions' = IF logoutError = "save" THEN sessions
                           ELSE sessions \ {sess}
       ELSE /\ procs' = [procs EXCEPT ![p] = Answer(f, 200)]
            /\ sessions' = sessions \ {sess}
  /\ last' = NoCall
  /\ UNCHANGED <<now, users, activity, logins, TokenVars, GcVars>>

\* ---------------------------------------------------------- GET /users/me
\* ensureAuthenticated(true), then the awaited updateLastActive(user.id, false).
getMyProfileReqHandler(p, sess) ==
  LET f == [Request("getMyProfile", sess, NoCsrf, NoCsrf) EXCEPT !.userId = sess]
      g == ensureAuthenticated(TRUE, sess)
  IN
  /\ Free(p)
  /\ activity[p] = NoTask
  /\ started < MaxRequests
  /\ Carries(sess)
  /\ started' = started + 1
  /\ IF g # Pass
       THEN /\ procs' = [procs EXCEPT ![p] = Guarded(f, g)]
            /\ activity' = activity
       ELSE /\ procs' = [procs EXCEPT ![p] = [f EXCEPT !.pc = "updateLastActive"]]
            /\ activity' = [activity EXCEPT ![p] =
                 updateLastActive("getMyProfile", sess, FALSE)]
  /\ last' = NoCall
  /\ UNCHANGED <<now, users, sessions, logins, TokenVars, GcVars>>

\* ---------------------------------------------------------- PUT /users/me
\* The row after updateUserProfile(user.id, {name}).
updateUserProfile(row, name) == [row EXCEPT !.name = name]

\* doubleCsrfProtection, ensureAuthenticated(true), then updateUserProfile.
updateMyProfileReqHandler(p, sess, cookie, header, name) ==
  LET f == [Request("updateMyProfile", sess, cookie, header) EXCEPT !.userId = sess]
      g == Chain(<<doubleCsrfProtection(cookie, header),
                   ensureAuthenticated(TRUE, sess)>>)
  IN
  /\ Free(p)
  /\ started < MaxRequests
  /\ Carries(sess)
  /\ started' = started + 1
  /\ IF g # Pass
       THEN /\ procs' = [procs EXCEPT ![p] = Guarded(f, g)]
            /\ users' = users
       ELSE /\ procs' = [procs EXCEPT ![p] = Answer(f, 200)]
            /\ users' = [users EXCEPT ![sess] = updateUserProfile(@, name)]
  /\ last' = NoCall
  /\ UNCHANGED <<now, AuthVars, TokenVars, GcVars>>

\* ------------------------------------------------- PUT /users/me/password
\* doubleCsrfProtection, ensureAuthenticated(true), ensureAuthStrategy(local),
\* then validatePassword(user, oldPassword): 401, or 400 for an unchanged
\* password, or on to updatePassword.
resetPasswordReqHandler(p, sess, cookie, header, oldPassword, newPassword) ==
  LET f == [Request("resetPassword", sess, cookie, header) EXCEPT
              !.userId = sess, !.password = newPassword,
              !.oldPassword = oldPassword]
      g == Chain(<<doubleCsrfProtection(cookie, header),
                   ensureAuthenticated(TRUE, sess),
                   ensureAuthStrategy(LOCAL_STRATEGY, f.user)>>)
  IN
  /\ Free(p)
  /\ started < MaxRequests
  /\ Carries(sess)
  /\ started' = started + 1
  /\ procs' = [procs EXCEPT ![p] =
       IF g # Pass THEN Guarded(f, g)
       ELSE IF ~bcryptCompare(oldPassword, f.user.passwordHash)
         THEN [Answer(f, 401) EXCEPT !.message = "Invalid password"]
       ELSE IF oldPassword = newPassword THEN Answer(f, 400)
       ELSE [f EXCEPT !.pc = "updatePassword"]]
  /\ last' = NoCall
  /\ UNCHANGED <<now, users, AuthVars, TokenVars, GcVars>>

\* await updatePassword(user.id, newPassword), then 200.
updatePassword(p) ==
  LET f == procs[p]
  IN /\ f.pc = "updatePassword"
     /\ users' = [users EXCEPT ![f.userId] =
          [@ EXCEPT !.passwordHash = bcryptHash(f.password)]]
     /\ procs' = [procs EXCEPT ![p] = Answer(f, 200)]
     /\ last' = NoCall
     /\ UNCHANGED <<now, AuthVars, TokenVars, GcVars, started>>

\* ------------------------------------ GET /users and GET /users/statistics
\* ensureAuthenticated(true) and ensureEmailVerified(true), then the handler
\* awaits its queries.
getAllUsersReqHandler(p, sess) ==
  LET f == [Request("getAllUsers", sess, NoCsrf, NoCsrf) EXCEPT !.userId = sess]
      g == Chain(<<ensureAuthenticated(TRUE, sess),
                   ensureEmailVerified(TRUE, f.user)>>)
  IN
  /\ Free(p)
  /\ started < MaxRequests
  /\ Carries(sess)
  /\ started' = started + 1
  /\ procs' = [procs EXCEPT ![p] =
       IF g # Pass THEN Guarded(f, g) ELSE [f EXCEPT !.pc = "query"]]
  /\ last' = NoCall
  /\ UNCHANGED <<now, users, AuthVars, TokenVars, GcVars>>

getStatisticsReqHandler(p, sess) ==
  LET f == [Request("getStatistics", sess, NoCsrf, NoCsrf) EXCEPT !.userId = sess]
      g == Chain(<<ensureAuthenticated(TRUE, sess),
                   ensureEmailVerified(TRUE, f.user)>>)
  IN
  /\ Free(p)
  /\ started < MaxRequests
  /\ Carries(sess)
  /\ started' = started + 1
  /\ procs' = [procs EXCEPT ![p] =
       IF g # Pass THEN Guarded(f, g) ELSE [f EXCEPT !.pc = "query"]]
  /\ last' = NoCall
  /\ UNCHANGED <<now, users, AuthVars, TokenVars, GcVars>>

\* The queries of a listing or statistics request have returned: 200.
queryReturn(p) ==
  LET f == procs[p]
  IN /\ f.pc = "query"
     /\ procs' = [procs EXCEPT ![p] = Answer(f, 200)]
     /\ last' = NoCall
     /\ UNCHANGED <<now, users, AuthVars, TokenVars, GcVars, started>>

\* ------------------------------------------------- the garbage collector
\* tokenGcStart: the module variable and the runtime's timers after the call.
tokenGcStart_NoGuard(handle, active, seq, intervalMs) ==
  LET t == [id |-> seq + 1, intervalMs |-> intervalMs]
  IN [gcInterval |-> t, timers |-> active \cup {t}, warned |-> FALSE]
tokenGcStart(handle, active, seq, intervalMs) ==
  IF handle # NoTimer
    THEN [gcInterval |-> handle, timers |-> active, warned |-> TRUE]
    ELSE LET t == [id |-> seq + 1, intervalMs |-> intervalMs]
         IN [gcInterval |-> t, timers |-> active \cup {t}, warned |-> FALSE]

\* tokenGcStop: clearInterval(gcInterval) and gcInterval = null, if set.
tokenGcStop(handle, active) ==
  IF handle # NoTimer
    THEN [gcInterval |-> NoTimer, timers |-> active \ {handle}]
    ELSE [gcInterval |-> handle, timers |-> active]

isTokenGcRunning(handle) == handle # NoTimer

tokenGcStartCall(intervalMs) ==
  LET r == tokenGcStart(gcInterval, timers, timerSeq, intervalMs)
  IN /\ r.warned \/ timerSeq < MaxTimers
     /\ gcInterval' = r.gcInterval
     /\ timers' = r.timers
     /\ timerSeq' = IF r.warned THEN timerSeq ELSE timerSeq + 1
     /\ last' = [op |-> "tokenGcStart", intervalMs |-> intervalMs,
                 warned |-> r.warned, result |-> "ok"]
     /\ UNCHANGED <<now, users, AuthVars, TokenVars, gcRuns, gcLog, procs, started>>

tokenGcStopCall ==
  LET r == tokenGcStop(gcInterval, timers)
  IN /\ gcInterval' = r.gcInterval
     /\ timers' = r.timers
     /\ last' = [op |-> "tokenGcStop", result |-> "ok"]
     /\ UNCHANGED <<now, users, AuthVars, TokenVars, timerSeq, gcRuns, gcLog, procs, started>>

isTokenGcRunningCall ==
  /\ last' = [op |-> "isTokenGcRunning", result |-> isTokenGcRunning(gcInterval)]
  /\ UNCHANGED <<now, users, AuthVars, TokenVars, GcVars, procs, started>>

\* An active timer fires: deleteExpiredTokens starts and takes `new Date()`.
FreeSlots == {s \in GcSlots : gcRuns[s] = NoRun}
TimerFire(t) ==
  /\ t \in timers
  /\ FreeSlots # {}
  /\ LET s == CHOOSE x \in FreeSlots : \A y \in FreeSlots : x <= y
     IN gcRuns' = [gcRuns EXCEPT ![s] = now]
  /\ last' = NoCall
  /\ UNCHANGED <<now, users, AuthVars, TokenVars, gcInterval, timers, timerSeq, gcLog, procs, started>>

\* The try/catch of deleteExpiredTokens around the awaited delete: the table
\* after it, the level of the line it logs, and how the call ends.
deleteExpiredTokensEnd_Rethrow(tbl, at, dbErr) ==
  [tokens |-> IF dbErr THEN tbl ELSE deleteExpiredTokens(tbl, at),
   level |-> IF dbErr THEN "error" ELSE "info",
   result |-> IF dbErr THEN "error" ELSE "ok"]
deleteExpiredTokensEnd(tbl, at, dbErr) ==
  [tokens |-> IF dbErr THEN tbl ELSE deleteExpiredTokens(tbl, at),
   level |-> IF dbErr THEN "error" ELSE "info",
   result |-> "ok"]

\* The awaited delete of a deleteExpiredTokens run; an error is logged only.
deleteExpiredTokensRun(s, dbErr) ==
  LET r == deleteExpiredTokensEnd(tokens, gcRuns[s], dbErr)
  IN
  /\ gcRuns[s] # NoRun
  /\ tokens' = r.tokens
  /\ gcRuns' = [gcRuns EXCEPT ![s] = NoRun]
  /\ gcLog' = gcLog \cup ({r.level} \ {"info"})
  /\ last' = [op |-> "deleteExpiredTokens", at |-> gcRuns[s], dbErr |-> dbErr,
              rowCount |-> Cardinality(DOMAIN tokens) - Cardinality(DOMAIN tokens'),
              result |-> r.result]
  /\ UNCHANGED <<now, users, AuthVars, issued, gcInterval, timers, timerSeq, procs, started>>

\* --------------------------------------------------- the token service alone
TokenProcs == {"p1"}
TokenUsers == {"u1"}

NextToken ==
  \/ Tick
  \/ \E u \in TokenUsers : createUserCall(u, LOCAL_STRATEGY, "pw1", NoExternalId)
  \/ \E p \in TokenProcs, u \in TokenUsers, pu \in TokenPurpose, ttl \in TtlSecs :
        createTokenCall(p, u, pu, ttl)
  \/ \E p \in TokenProcs, t \in TokenStrings, e \in BOOLEAN :
        createTokenAttempt(p, t, e)
  \/ \E t \in TokenStrings, pu \in TokenPurpose, e \in BOOLEAN :
        validateTokenCall(t, pu, e)
  \/ \E t \in TokenStrings, e \in BOOLEAN : deleteTokenCall(t, e)

SpecToken == Init /\ [][NextToken]_vars

\* ------------------------------------------------ the timer's lifecycle
NextTimer ==
  \/ Tick
  \/ \E i \in Intervals : tokenGcStartCall(i)
  \/ tokenGcStopCall
  \/ isTokenGcRunningCall
  \/ \E t \in timers : TimerFire(t)
  \/ \E s \in GcSlots, e \in BOOLEAN : deleteExpiredTokensRun(s, e)

SpecTimer == Init /\ [][NextTimer]_vars

\* --------------------------------------- garbage collection of issued tokens
GcPurposes == {VERIFY_EMAIL}

NextGc ==
  \/ Tick
  \/ \E u \in TokenUsers : createUserCall(u, LOCAL_STRATEGY, "pw1", NoExternalId)
  \/ \E p \in TokenProcs, u \in TokenUsers, pu \in GcPurposes, ttl \in TtlSecs :
        createTokenCall(p, u, pu, ttl)
  \/ \E p \in TokenProcs, t \in TokenStrings : createTokenAttempt(p, t, FALSE)
  \/ tokenGcStartCall(HOUR_IN_MS)
  \/ \E t \in timers : TimerFire(t)
  \/ \E s \in GcSlots, e \in BOOLEAN : deleteExpiredTokensRun(s, e)

SpecGc == Init /\ [][NextGc]_vars

\* ------------------------------- the life of a token: issue, consume, expire
NextLife ==
  \/ Tick
  \/ \E u \in TokenUsers : createUserCall(u, LOCAL_STRATEGY, "pw1", NoExternalId)
  \/ \E p \in TokenProcs, u \in TokenUsers, pu \in GcPurposes :
        createTokenCall(p, u, pu, VERIFY_EMAIL_TOKEN_TTL_SEC)
  \/ \E p \in TokenProcs, t \in TokenStrings : createTokenAttempt(p, t, FALSE)
  \/ \E t \in TokenStrings : deleteTokenCall(t, FALSE)
  \/ tokenGcStartCall(HOUR_IN_MS)
  \/ \E t \in timers : TimerFire(t)
  \/ \E s \in GcSlots : deleteExpiredTokensRun(s, FALSE)

SpecLife == Init /\ [][NextLife]_vars

\* ------------------------------------------- signup, resend and verify-email
AuthUsers == {"u1"}

NextAuth ==
  \/ Tick
  \/ \E p \in Procs, u \in AuthUsers : createUserReqHandler(p, Anonymous, u)
  \/ \E p \in Procs : signupLogin(p, FALSE)
  \/ \E p \in Procs, t \in TokenStrings : createTokenAttempt(p, t, FALSE)
  \/ \E p \in Procs, e \in BOOLEAN : sendVerificationEmailStep(p, e)
  \/ \E p \in Procs : updateLastActiveSelect(p)
  \/ \E p \in Procs : updateLastActiveUpdate(p)
  \/ \E p \in Procs, u \in AuthUsers :
        sendVerificationEmailReqHandler(p, u, "k1", "k1")
  \/ \E p \in Procs : resendDelete(p)
  \/ \E p \in Procs, t \in TokenStrings : verifyEmailReqHandler(p, t)
  \/ \E p \in Procs, e \in BOOLEAN : verifyEmailCommit(p, e)

SpecAuth == Init /\ [][NextAuth]_vars

\* --------------------------------------------------- signup and verify-email
NextVerify ==
  \/ Tick
  \/ \E p \in Procs, u \in AuthUsers : createUserReqHandler(p, Anonymous, u)
  \/ \E p \in Procs : signupLogin(p, FALSE)
  \/ \E p \in Procs, t \in TokenStrings : createTokenAttempt(p, t, FALSE)
  \/ \E p \in Procs, e \in BOOLEAN : sendVerificationEmailStep(p, e)
  \/ \E p \in Procs : updateLastActiveSelect(p)
  \/ \E p \in Procs : updateLastActiveUpdate(p)
  \/ \E p \in Procs, t \in TokenStrings : verifyEmailReqHandler(p, t)
  \/ \E p \in Procs, e \in BOOLEAN : verifyEmailCommit(p, e)

SpecVerify == Init /\ [][NextVerify]_vars

\* ------------------------------------------- logins and updateLastActive
LocalUsers == {"u1"}
GoogleAccounts == {"u2"}

NextLogin ==
  \/ Tick
  \/ \E u \in LocalUsers : createUserCall(u, LOCAL_STRATEGY, "pw1", NoExternalId)
  \/ \E p \in Procs, email \in Users, pw \in Passwords :
        loginReqHandler(p, Anonymous, email, pw)
  \/ \E p \in Procs, g \in GoogleAccounts :
        googleAuthCallbackReqHandler(p, Anonymous, Profile("g2", g, "n2"))
  \/ \E p \in Procs, sess \in Users : getMyProfileReqHandler(p, sess)
  \/ \E p \in Procs : updateLastActiveSelect(p)
  \/ \E p \in Procs : updateLastActiveUpdate(p)
  \/ \E p \in Procs : updateLastActiveReturn(p)

SpecLogin == Init /\ [][NextLogin]_vars

\* ------------------------------------------------- every route, one caller
GuardProcs == {"p1"}
Sessions == Users \cup {Anonymous}      \* the session a request carries
CsrfCookies == {NoCsrf, "k1"}           \* the CSRF cookie a request carries
CsrfHeaders == CsrfTokens \cup {NoCsrf}
GoogleProfiles == {Profile("g1", "u1", "n1"), Profile("g2", "u2", "n1")}

NextGuard ==
  \/ \E p \in GuardProcs, sess \in Sessions, u \in LocalUsers :
        createUserReqHandler(p, sess, u)
  \/ \E p \in GuardProcs : signupLogin(p, FALSE)
  \/ \E p \in GuardProcs : createTokenAttempt(p, "tA", FALSE)
  \/ \E p \in GuardProcs : sendVerificationEmailStep(p, FALSE)
  \/ \E p \in GuardProcs : updateLastActiveSelect(p)
  \/ \E p \in GuardProcs : updateLastActiveUpdate(p)
  \/ \E p \in GuardProcs : updateLastActiveReturn(p)
  \/ \E p \in GuardProcs, sess \in Sessions, email \in Users, pw \in Passwords :
        loginReqHandler(p, sess, email, pw)
  \/ \E p \in GuardProcs, sess \in Sessions, profile \in GoogleProfiles :
        googleAuthCallbackReqHandler(p, sess, profile)
  \/ \E p \in GuardProcs, sess \in Sessions, c \in CsrfCookies, h \in CsrfHeaders :
        logoutReqHandler(p, sess, c, h, "none")
  \/ \E p \in GuardProcs, sess \in Sessions : getMyProfileReqHandler(p, sess)
  \/ \E p \in GuardProcs, sess \in Sessions, c \in CsrfCookies, h \in CsrfHeaders :
        updateMyProfileReqHandler(p, sess, c, h, "n2")
  \/ \E p \in GuardProcs, sess \in Sessions, c \in CsrfCookies, h \in CsrfHeaders,
          old \in Passwords :
        resetPasswordReqHandler(p, sess, c, h, old, "pw2")
  \/ \E p \in GuardProcs : updatePassword(p)
  \/ \E p \in GuardProcs, sess \in Sessions : getAllUsersReqHandler(p, sess)
  \/ \E p \in GuardProcs, sess \in Sessions : getStatisticsReqHandler(p, sess)
  \/ \E p \in GuardProcs : queryReturn(p)
  \/ \E p \in GuardProcs, sess \in Sessions, c \in CsrfCookies, h \in CsrfHeaders :
        sendVerificationEmailReqHandler(p, sess, c, h)
  \/ \E p \in GuardProcs : resendDelete(p)
  \/ \E p \in GuardProcs, t \in TokenStrings : verifyEmailReqHandler(p, t)
  \/ \E p \in GuardProcs : verifyEmailCommit(p, FALSE)

SpecGuard == Init /\ [][NextGuard]_vars

\* ------------------------------- accounts: creation, Google login, logout
\* Every route with a valid CSRF pair, one caller; createUser with every
\* combination of options, every Google profile, a failing mail provider
\* and a failing req.logout.
Strategies == {LOCAL_STRATEGY, GOOGLE_OAUTH}
AccountProfiles ==
  {Profile(id, email, "n2") : id \in ExternalIds, email \in Users \cup {NoEmail}}

NextAccount ==
  \/ \E u \in Users, s \in Strategies, pw \in {NoPassword, "pw1"},
          id \in {NoExternalId, "g1"} :
        createUserCall(u, s, pw, id)
  \/ \E p \in GuardProcs, sess \in Sessions, u \in LocalUsers :
        createUserReqHandler(p, sess, u)
  \/ \E p \in GuardProcs : signupLogin(p, FALSE)
  \/ \E p \in GuardProcs : createTokenAttempt(p, "tA", FALSE)
  \/ \E p \in GuardProcs, e \in BOOLEAN : sendVerificationEmailStep(p, e)
  \/ \E p \in GuardProcs : updateLastActiveSelect(p)
  \/ \E p \in GuardProcs : updateLastActiveUpdate(p)
  \/ \E p \in GuardProcs : updateLastActiveReturn(p)
  \/ \E p \in GuardProcs, sess \in Sessions, email \in LocalUsers :
        loginReqHandler(p, sess, email, "pw1")
  \/ \E p \in GuardProcs, sess \in Sessions, profile \in AccountProfiles :
        googleAuthCallbackReqHandler(p, sess, profile)
  \/ \E p \in GuardProcs, sess \in Sessions, e \in LogoutErrors :
        logoutReqHandler(p, sess, "k1", "k1", e)
  \/ \E p \in GuardProcs, sess \in Sessions :
        updateMyProfileReqHandler(p, sess, "k1", "k1", "n1")
  \/ \E p \in GuardProcs, sess \in Sessions :
        resetPasswordReqHandler(p, sess, "k1", "k1", "pw1", "pw2")
  \/ \E p \in GuardProcs : updatePassword(p)
  \/ \E p \in GuardProcs : verifyEmailReqHandler(p, "tA")
  \/ \E p \in GuardProcs : verifyEmailCommit(p, FALSE)

SpecAccount == Init /\ [][NextAccount]_vars

\* ------------------------------------ concurrent signups and Google logins
NextSignup ==
  \/ \E p \in Procs, u \in AuthUsers : createUserReqHandler(p, Anonymous, u)
  \/ \E p \in Procs : signupLogin(p, FALSE)
  \/ \E p \in Procs, t \in TokenStrings : createTokenAttempt(p, t, FALSE)
  \/ \E p \in Procs : sendVerificationEmailStep(p, FALSE)
  \/ \E p \in Procs : updateLastActiveSelect(p)
  \/ \E p \in Procs : updateLastActiveUpdate(p)
  \/ \E p \in Procs : updateLastActiveReturn(p)
  \/ \E p \in Procs, u \in AuthUsers :
        googleAuthCallbackReqHandler(p, Anonymous, Profile("g1", u, "n2"))

SpecSignup == Init /\ [][NextSignup]_vars

\* ======================================================= token service claims
IsValidate(c) == c.op = "validateToken" /\ ~c.dbErr
IsDelete(c) == c.op = "deleteToken" /\ ~c.dbErr
Returned(p) == procs[p].pc = "returned" /\ procs[p].op = "createToken"

\* C1: validateToken(t, P) returns the stored row when a row for t exists, its
\* purpose is P and its expiry lies ahead; it returns null, as a result and not
\* as an error, when there is no row for t, when the stored purpose differs
\* from P and when the expiry has passed; the call changes no table. (What
\* happens at the instant now = expire is the subject of C3.)
C1_ValidateContract ==
  [][IsValidate(last') =>
       LET t == last'.token
           P == last'.purpose
           has == t \in DOMAIN tokens
       IN /\ tokens' = tokens /\ users' = users
          /\ (has /\ tokens[t].purpose = P /\ now < tokens[t].expire)
               => last'.result = tokens[t]
          /\ (~has) => last'.result = Null
          /\ (has /\ tokens[t].purpose # P) => last'.result = Null
          /\ (has /\ tokens[t].expire < now) => last'.result = Null]_vars

\* C1 witness: a validateToken call that answered null for an expired row of
\* the requested purpose.
C1_Witness ==
  /\ IsValidate(last)
  /\ last.result = Null
  /\ last.token \in DOMAIN tokens
  /\ tokens[last.token].purpose = last.purpose
  /\ tokens[last.token].expire < now

\* The row createToken returned to p is still the row stored under its string.
Current(rec) ==
  rec.token \in DOMAIN tokens => tokens[rec.token].serial = rec.serial

\* C2: validate(issue(u, P, ttl).token, P) is the issued record right after
\* issuance, null once ttl seconds have elapsed since issuance, and null after
\* consume was called on the token.
C2_IssueValidate ==
  \A p \in Procs :
    Returned(p) =>
      LET f == procs[p]
          rec == f.tokenRecord
          v == validateToken(tokens, now, rec.token, f.purpose)
      IN /\ (last = NoCall /\ now = rec.createdAt /\ rec.token \in DOMAIN tokens
               /\ tokens[rec.token] = rec) => v = rec
         /\ (Current(rec) /\ now >= rec.createdAt + f.ttlSec * SEC_IN_MS)
               => v = Null
         /\ (IsDelete(last) /\ last.token = rec.token) => v = Null

\* C3: validateToken accepts a token only while now < expire: whenever the
\* clock has reached the row's expiry (now >= expire) the answer is null.
C3_ExpiryBoundary ==
  (IsValidate(last) /\ last.token \in DOMAIN tokens
     /\ now >= tokens[last.token].expire) => last.result = Null

\* C7: createToken inserts at most 3 times and retries only after a
\* primary-key conflict; it returns after the first successful insert, which
\* added exactly one row; it throws only after 3 conflicts, having added none.
C7_BoundedRetry ==
  [][\A p \in Procs :
       LET f == procs[p]
           g == procs'[p]
       IN (f.pc = "insert" /\ g # f) =>
            /\ g.attempt <= maxAttempt
            /\ (g.pc = "insert") =>
                 /\ g.attempt = f.attempt + 1
                 /\ g.error = "conflict"
                 /\ tokens' = tokens
            /\ (g.pc = "returned") =>
                 /\ g.tokenRecord.token \notin DOMAIN tokens
                 /\ tokens' = With(tokens, g.tokenRecord.token, g.tokenRecord)
            /\ (g.pc = "thrown") =>
                 /\ f.attempt = maxAttempt
                 /\ g.error = "conflict"
                 /\ tokens' = tokens]_vars

\* C8: deleteToken(t) removes the row for t if there is one and leaves every
\* other row as it was; for an absent t it is not an error and changes nothing.
C8_ConsumeIdempotent ==
  [][IsDelete(last') =>
       LET t == last'.token
       IN /\ last'.result = "ok"
          /\ DOMAIN tokens' = DOMAIN tokens \ {t}
          /\ \A k \in DOMAIN tokens' : tokens'[k] = tokens[k]
          /\ (t \notin DOMAIN tokens) => tokens' = tokens
          /\ users' = users]_vars

\* C8 witness: a deleteToken call for a string without a row, while another
\* row is stored.
C8_Witness ==
  /\ IsDelete(last)
  /\ last.rowCount = 0
  /\ last.result = "ok"
  /\ tokens # << >>

\* ==================================================== garbage collector claims
IsGcRun(c) == c.op = "deleteExpiredTokens" /\ ~c.dbErr

\* C9: at most one GC timer is active; tokenGcStart while running keeps the
\* timer and its interval and raises nothing; tokenGcStop clears the timer and
\* does nothing when none runs; isTokenGcRunning answers true exactly while
\* the timer of the last successful start is active.
C9_TimerLifecycle ==
  [][/\ Cardinality(timers') <= 1
     /\ timers' = IF gcInterval' = NoTimer THEN {} ELSE {gcInterval'}
     /\ (last'.op = "tokenGcStart") =>
          /\ last'.result = "ok"
          /\ IF timers # {}
               THEN timers' = timers /\ gcInterval' = gcInterval
               ELSE /\ gcInterval' # NoTimer
                    /\ gcInterval'.intervalMs = last'.intervalMs
     /\ (last'.op = "tokenGcStop") =>
          /\ last'.result = "ok"
          /\ timers' = {}
          /\ gcInterval' = NoTimer
     /\ (last'.op = "isTokenGcRunning") =>
          /\ last'.result = (timers # {})
          /\ timers' = timers
     /\ (last'.op \notin {"tokenGcStart", "tokenGcStop"}) => timers' = timers
    ]_vars

\* C9 witness: tokenGcStart was called while the collector was running.
C9_Witness ==
  /\ last.op = "tokenGcStart"
  /\ last.warned
  /\ timers = {gcInterval}
  /\ gcInterval.intervalMs # last.intervalMs

\* C10: a garbage-collection run removes exactly the rows with expire < now
\* (the time the run took); a row validateToken would still accept is never
\* removed; after the run no row with expire below that time is left, so a
\* redundant run, in sequence or overlapping, removes nothing more.
C10_GcRun ==
  [][IsGcRun(last') =>
       LET at == last'.at
           gone == DOMAIN tokens \ DOMAIN tokens'
       IN /\ DOMAIN tokens' \subseteq DOMAIN tokens
          /\ \A t \in DOMAIN tokens' : tokens'[t] = tokens[t]
          /\ \A t \in DOMAIN tokens : (t \in gone) <=> (tokens[t].expire < at)
          /\ \A t \in gone, pu \in TokenPurpose :
               validateToken(tokens, now, t, pu) = Null
          /\ \A s \in GcSlots :
               (gcRuns'[s] # NoRun /\ gcRuns'[s] <= at) =>
                  deleteExpiredTokens(tokens', gcRuns'[s]) = tokens'
          /\ users' = users]_vars

\* C10 witness: a run that removed a row and kept another one, while a second
\* run that took the same time is still to do its delete.
C10_Witness ==
  /\ IsGcRun(last)
  /\ last.rowCount > 0
  /\ tokens # << >>
  /\ \E s \in GcSlots : gcRuns[s] = last.at

\* C11: a store failure during a garbage-collection run is logged and
\* swallowed: the run ends normally, removes no row and leaves the timer
\* active; a run that completes after a failed one still removes every row
\* whose expiry lies before the time it took.
C11_GcFailureSwallowed ==
  [][/\ (last'.op = "deleteExpiredTokens" /\ last'.dbErr) =>
          /\ last'.result = "ok"
          /\ "error" \in gcLog'
          /\ tokens' = tokens
          /\ timers' = timers /\ gcInterval' = gcInterval
          /\ timers' = {gcInterval'}
     /\ (IsGcRun(last') /\ "error" \in gcLog) =>
          /\ last'.result = "ok"
          /\ \A t \in DOMAIN tokens : tokens[t].expire < last'.at => t \notin DOMAIN tokens'
          /\ timers' = {gcInterval'}]_vars

\* C11 witness: after a run that failed and was logged, a run removed an
\* expired row, the timer still being active.
C11_Witness ==
  /\ IsGcRun(last)
  /\ "error" \in gcLog
  /\ last.rowCount > 0
  /\ timers = {gcInterval}

\* ============================================================ handler claims
Verified(p) == procs[p].op = "verifyEmail" /\ procs[p].outcome = 302
Resent(p) == procs[p].op = "resend" /\ procs[p].outcome = 200

\* The VERIFY_EMAIL rows of user u that validateToken accepts.
Live(u) ==
  {t \in DOMAIN tokens :
     /\ tokens[t].userId = u
     /\ validateToken(tokens, now, t, VERIFY_EMAIL) # Null}

\* C4: resend-verification deletes the user's earlier VERIFY_EMAIL tokens
\* before it issues the new one, so a user never has more than one live
\* VERIFY_EMAIL token, also when two resend requests interleave, and no
\* token issued before the one a finished resend returned still validates.
C4_OneLiveToken ==
  \A u \in Users :
    /\ Cardinality(Live(u)) <= 1
    /\ \A p \in Procs :
         (Resent(p) /\ procs[p].userId = u) =>
            \A t \in Live(u) : tokens[t].serial >= procs[p].tokenRecord.serial

\* C5: a token is single-use: no two verify-email requests that carried the
\* same token both end with the success response.
C5_SingleUse ==
  \A p, q \in Procs :
    (p # q /\ Verified(p) /\ Verified(q)) =>
       procs[p].tokenRecord.serial # procs[q].tokenRecord.serial

\* C6: verify-email with a valid, unexpired VERIFY_EMAIL token proceeds to one
\* transaction that marks the owner verified and deletes the token, both or
\* (if it fails) neither; a user becomes verified in no other step; a request
\* made after the token was consumed gets the 400 answer and changes no user
\* and no token.
C6_VerifyOnce ==
  [][\A p \in Procs :
       LET f == procs[p]
           g == procs'[p]
           t == g.token
           rec == f.tokenRecord
       IN /\ (g.op = "verifyEmail" /\ g.req = started + 1 /\ started' = started + 1) =>
               /\ users' = users /\ tokens' = tokens
               /\ (t \in DOMAIN tokens /\ tokens[t].purpose = VERIFY_EMAIL
                     /\ now < tokens[t].expire)
                    => (g.pc = "setEmailVerified" /\ g.tokenRecord = tokens[t])
               /\ (t \notin DOMAIN tokens) => (g.pc = "done" /\ g.outcome = 400)
          /\ (f.op = "verifyEmail" /\ f.pc = "setEmailVerified" /\ g.pc = "done") =>
               /\ g.outcome \in {302, 500}
               /\ (g.outcome = 302) =>
                    /\ users'[rec.userId].isEmailVerified
                    /\ rec.token \notin DOMAIN tokens'
                    /\ \A u \in DOMAIN users \ {rec.userId} : users'[u] = users[u]
                    /\ \A k \in DOMAIN tokens \ {rec.token} :
                         k \in DOMAIN tokens' /\ tokens'[k] = tokens[k]
               /\ (g.outcome = 500) => (users' = users /\ tokens' = tokens)
          /\ \A u \in DOMAIN users :
               (~users[u].isEmailVerified /\ users'[u].isEmailVerified) =>
                  \E k \in DOMAIN tokens \ DOMAIN tokens' :
                     tokens[k].userId = u /\ tokens[k].purpose = VERIFY_EMAIL]_vars

\* C6 witness: a verify-email request succeeded, its user is verified, its
\* token has no row, and a later request with the same token was answered 400.
C6_Witness ==
  \E p, q \in Procs :
    /\ Verified(p)
    /\ users[procs[p].tokenRecord.userId].isEmailVerified
    /\ procs[p].token \notin DOMAIN tokens
    /\ procs[q].op = "verifyEmail"
    /\ procs[q].outcome = 400
    /\ procs[q].token = procs[p].token
    /\ procs[q].req > procs[p].req

\* ============================================================== login claims
LoginFailed(p) == procs[p].op = "login" /\ procs[p].outcome = 401

\* C12: a local login that fails because the email is unknown, because the
\* account's strategy is not local, or because the password is wrong gets
\* the same answer: any two failed logins carry the same status and message.
C12_LoginIndistinguishable ==
  \A p, q \in Procs :
    (LoginFailed(p) /\ LoginFailed(q)) =>
       /\ procs[p].outcome = procs[q].outcome
       /\ procs[p].message = procs[q].message

\* The updateLastActive calls in flight for user u.
Updating(u) == {p \in Procs : activity[p] # NoTask /\ activity[p].userId = u}

\* C13: however the reads and writes of concurrent updateLastActive(u, true)
\* calls interleave, once they have completed loginCount is the initial count
\* plus the number of completed calls.
C13_NoLostUpdate ==
  \A u \in DOMAIN users :
    Updating(u) = {} => users[u].loginCount = logins[u]

\* C14: a completing updateLastActive(u, isLogin) call sets lastActiveAt to
\* the time the call took and changes loginCount by exactly 1 for a login and
\* by 0 otherwise, leaving every other field and row as it was; loginCount
\* never decreases and is never negative.
C14_RecordActivity ==
  [][/\ \A p \in Procs :
          (activity[p] # NoTask /\ activity[p].pc = "update"
             /\ activity'[p] = NoTask) =>
             LET a == activity[p]
                 u == a.userId
             IN /\ users'[u].lastActiveAt = a.lastActiveAt
                /\ users'[u].loginCount =
                     users[u].loginCount + (IF a.isLogin THEN 1 ELSE 0)
                /\ users' = [users EXCEPT
                               ![u] = [@ EXCEPT
                                  !.lastActiveAt = users'[u].lastActiveAt,
                                  !.loginCount = users'[u].loginCount]]
     /\ \A u \in DOMAIN users :
          /\ users'[u].loginCount >= users[u].loginCount
          /\ users[u].loginCount >= 0]_vars

\* ============================================================== guard claims
\* The request that this step starts, if it starts one.
Starts(p) == started' = started + 1 /\ procs'[p].req = started + 1

\* Nothing a handler's business logic writes has changed.
Untouched ==
  /\ users' = users
  /\ tokens' = tokens /\ issued' = issued
  /\ sessions' = sessions
  /\ activity' = activity

\* C15: loginCount changes only through a successful local login or signup:
\* those are the only handlers that call updateLastActive(id, true), profile
\* reads call it with false, and no step of any other operation (Google
\* login included) changes a loginCount.
C15_LoginCountFrame ==
  [][/\ \A p \in Procs :
          (activity'[p] # NoTask /\ activity'[p] # activity[p]
             /\ activity'[p].pc = "select") =>
             /\ activity'[p].isLogin <=> activity'[p].op \in {"login", "signup"}
             /\ activity'[p].op \in {"login", "signup", "getMyProfile"}
     /\ \A u \in DOMAIN users :
          users'[u].loginCount # users[u].loginCount =>
             \E p \in Procs :
                /\ activity[p] # NoTask /\ activity'[p] = NoTask
                /\ activity[p].userId = u
                /\ activity[p].op \in {"login", "signup"}]_vars

C17_VerifiedOnly ==
  [][\A p \in Procs :
       LET g == procs'[p]
       IN /\ (Starts(p) /\ g.op \in {"getAllUsers", "getStatistics"}) =>
               /\ Untouched
               /\ (g.sess = Anonymous) => (g.pc = "done" /\ g.outcome = 401)
               /\ (g.sess # Anonymous /\ ~users[g.sess].isEmailVerified)
                     => (g.pc = "done" /\ g.outcome = 403)
               /\ (g.sess # Anonymous /\ users[g.sess].isEmailVerified)
                     => g.pc = "query"
          /\ (g.op \in {"getAllUsers", "getStatistics"}
                /\ (g.pc = "query" \/ g.outcome = 200)) =>
               /\ g.sess \in DOMAIN users'
               /\ users'[g.sess].isEmailVerified]_vars

\* C17 witness: a statistics request of a signed-up, not yet verified user
\* was answered 403 while that user's verification token is stored.
C17_Witness ==
  \E p \in Procs :
    /\ procs[p].op = "getStatistics"
    /\ procs[p].outcome = 403
    /\ procs[p].sess \in sessions
    /\ ~users[procs[p].sess].isEmailVerified
    /\ \E t \in DOMAIN tokens : tokens[t].userId = procs[p].sess

\* The request's x-csrf-token header does not repeat the token of its cookie.
CsrfMismatch(f) == f.cookie = NoCsrf \/ f.header # f.cookie

\* C18: reset-password and resend-verification of a session whose user has
\* the Google strategy are answered 403 whatever old password is supplied,
\* before any password check, token deletion, token insert or email.
C18_LocalOnly ==
  [][\A p \in Procs :
       (Starts(p) /\ procs'[p].op \in {"resetPassword", "resend"}
          /\ procs'[p].sess # Anonymous
          /\ users[procs'[p].sess].authStrategy = GOOGLE_OAUTH) =>
          /\ procs'[p].pc = "done"
          /\ procs'[p].outcome = 403
          /\ Untouched]_vars

\* C19: logout, profile update, reset-password and resend of an
\* authenticated session whose CSRF header does not match are answered 403
\* before any business logic: no session is destroyed, no user field
\* written, no token deleted or inserted.
C19_CsrfForbidden ==
  [][\A p \in Procs :
       (Starts(p)
          /\ procs'[p].op \in {"logout", "updateMyProfile", "resetPassword", "resend"}
          /\ procs'[p].sess # Anonymous
          /\ CsrfMismatch(procs'[p])) =>
          /\ procs'[p].pc = "done"
          /\ procs'[p].outcome = 403
          /\ Untouched]_vars

\* C20: a request without a session is never ended by the CSRF check (an
\* anonymous logout, profile update, reset-password or resend gets the 401
\* of ensureAuthenticated), and no GET request is ended by the CSRF check.
C20_CsrfExempt ==
  [][\A p \in Procs :
       LET g == procs'[p]
       IN Starts(p) =>
            /\ (g.sess = Anonymous
                  /\ g.op \in {"logout", "updateMyProfile", "resetPassword", "resend"})
                 => (g.outcome = 401 /\ g.error # "EBADCSRFTOKEN")
            /\ (g.op \in {"getMyProfile", "getAllUsers", "getStatistics",
                           "verifyEmail", "google"})
                 => g.error # "EBADCSRFTOKEN"]_vars

\* ------------------------------------------------ accounts and sessions
\* The user rows this step inserts.
Created == DOMAIN users' \ DOMAIN users

\* The request of p gets its success response in this step.
Succeeds(p, op, status) ==
  /\ procs[p].op = op
  /\ procs[p].pc # "done"
  /\ procs'[p].pc = "done"
  /\ procs'[p].outcome = status

LacksCredential(options) ==
  IF options.authStrategy = LOCAL_STRATEGY THEN options.password = NoPassword
  ELSE options.externalId = NoExternalId

\* Every row has the credential of its strategy.
HasCredential(row) ==
  IF row.authStrategy = LOCAL_STRATEGY THEN row.passwordHash # NoHash
  ELSE row.externalId # NoExternalId

\* C22: every user row of the local strategy has a password hash and every
\* other row has an external id; createUser throws for options that lack the
\* credential and inserts nothing; and no later step (profile update,
\* password reset, verification, activity recording) breaks this.
C22_StrategyCredential ==
  [][/\ \A u \in DOMAIN users' : HasCredential(users'[u])
     /\ (last'.op = "createUser" /\ LacksCredential(last'.options)) =>
          /\ last'.error \notin {"none", "23505"}
          /\ users' = users]_vars

\* createUser has just thrown for options without a credential, after a
\* signup, a verification and a password reset of a user with activity.
C22_Witness ==
  /\ last.op = "createUser"
  /\ LacksCredential(last.options)
  /\ last.error # "none"
  /\ \E u \in DOMAIN users :
       /\ users[u].authStrategy = LOCAL_STRATEGY
       /\ users[u].isEmailVerified
       /\ users[u].passwordHash = bcryptHash("pw2")
       /\ users[u].lastActiveAt # NoDate

\* The users of the Google strategy with this external id.
GoogleUsers(externalId) ==
  {u \in DOMAIN users : /\ users[u].authStrategy = GOOGLE_OAUTH
                        /\ users[u].externalId = externalId}

\* C23: the Google callback of an anonymous request looks the user up by
\* the external id and logs that user in; without such a user a profile
\* that has no email is answered 400 and one whose email belongs to a user
\* is answered 409, both without a new row or a session; any other profile
\* gets a new GOOGLE_OAUTH row under its email and external id, logged in.
C23_GoogleLogin ==
  [][\A p \in Procs :
       LET g == procs'[p]
           found == GoogleUsers(g.externalId)
       IN (Starts(p) /\ g.op = "google" /\ g.sess = Anonymous) =>
            /\ (found # {}) =>
                 /\ g.pc = "updateLastActive"
                 /\ g.userId \in found
                 /\ users' = users
                 /\ sessions' = sessions \cup {g.userId}
            /\ (found = {} /\ g.userId = NoEmail) =>
                 (g.pc = "done" /\ g.outcome = 400 /\ Untouched)
            /\ (found = {} /\ g.userId \in DOMAIN users) =>
                 (g.pc = "done" /\ g.outcome = 409 /\ Untouched)
            /\ (found = {} /\ g.userId # NoEmail /\ g.userId \notin DOMAIN users) =>
                 /\ g.pc = "updateLastActive"
                 /\ Created = {g.userId}
                 /\ \A u \in DOMAIN users : users'[u] = users[u]
                 /\ users'[g.userId].authStrategy = GOOGLE_OAUTH
                 /\ users'[g.userId].externalId = g.externalId
                 /\ sessions' = sessions \cup {g.userId}]_vars

\* A Google callback was answered 409 for the email of a local user, after
\* a Google user was created and then found again by its external id.
C23_Witness ==
  \E p \in Procs, u \in DOMAIN users :
    /\ procs[p].op = "google"
    /\ procs[p].outcome = 409
    /\ users[procs[p].userId].authStrategy = LOCAL_STRATEGY
    /\ users[u].authStrategy = GOOGLE_OAUTH
    /\ users[u].externalId # procs[p].externalId
    /\ users[u].loginCount = 2
    /\ u \in sessions

\* The last request of p was ended by the mail provider's error.
MailFailed(p, op) ==
  /\ procs[p].op = op
  /\ procs[p].pc = "done"
  /\ procs[p].outcome = 500
  /\ procs[p].error = "sendgrid"

\* C24: a signup or resend that the mail provider failed ended with an
\* error, and the caller who repeats the same request is not turned away
\* because of what the failed attempt left behind: the repeated signup
\* creates its user and the repeated resend reaches its token.
C24_RetryAfterMailFailure ==
  [][\A p \in Procs :
       LET g == procs'[p]
       IN /\ (MailFailed(p, "signup") /\ Starts(p) /\ g.op = "signup"
                /\ g.userId = procs[p].userId) => g.pc = "login"
          /\ (MailFailed(p, "resend") /\ Starts(p) /\ g.op = "resend"
                /\ g.userId = procs[p].userId) => g.pc = "delete"]_vars

\* The routes that run ensureAuthenticated(true).
AuthRequired ==
  {"logout", "getMyProfile", "updateMyProfile", "resetPassword", "getAllUsers",
   "getStatistics", "resend"}

\* C25: the signup, local login and Google login that answer with success
\* have established a session of their user; the logout that answers 200
\* has destroyed the caller's session; and the caller's next request to a
\* route that requires authentication, sent without a session, is answered
\* 401.
C25_SessionLifecycle ==
  [][\A p \in Procs :
       LET f == procs[p]
           g == procs'[p]
       IN /\ (Succeeds(p, "signup", 201) \/ Succeeds(p, "login", 200)
                \/ Succeeds(p, "google", 302)) => g.userId \in sessions'
          /\ (Starts(p) /\ g.op = "logout" /\ g.outcome = 200) =>
                g.sess \notin sessions'
          /\ (f.op = "logout" /\ f.outcome = 200 /\ Starts(p)
                /\ g.sess = Anonymous /\ g.op \in AuthRequired) =>
                (g.pc = "done" /\ g.outcome = 401)]_vars

\* The signups for email u that got past the insert of their user row.
Inserted(tbl, u) ==
  {p \in Procs : /\ tbl[p].op = "signup"
                 /\ tbl[p].userId = u
                 /\ (tbl[p].pc # "done" \/ tbl[p].outcome \in {201, 500})}

\* C26: a signup for an email that belongs to a user of any strategy is
\* answered 409 and creates no user, token or session; a row is never
\* replaced under its email; and of the signups for one email, concurrent
\* ones included, at most one inserts the user.
C26_UniqueEmail ==
  [][/\ \A p \in Procs :
          LET g == procs'[p]
          IN (Starts(p) /\ g.op = "signup" /\ g.sess = Anonymous
                /\ g.userId \in DOMAIN users) =>
               (g.pc = "done" /\ g.outcome = 409 /\ Untouched)
     /\ \A u \in DOMAIN users :
          /\ u \in DOMAIN users'
          /\ users'[u].authStrategy = users[u].authStrategy
          /\ users'[u].externalId = users[u].externalId
          /\ users'[u].passwordHash = users[u].passwordHash
     /\ \A u \in Users : Cardinality(Inserted(procs', u)) <= 1]_vars

\* A signup was answered 409 while the signup that inserted the user of
\* that email, started before it, is still in flight.
C26_Witness ==
  \E p, q \in Procs :
    /\ procs[p].op = "signup" /\ procs[p].pc = "send"
    /\ procs[q].op = "signup" /\ procs[q].outcome = 409
    /\ procs[q].userId = procs[p].userId
    /\ procs[p].req < procs[q].req

\* validateToken returns the row under t for the row's own purpose.
Validates(tbl, clock, t) ==
  t \in DOMAIN tbl /\ validateToken(tbl, clock, t, tbl[t].purpose) # Null

\* C27: CONSUMED and EXPIRED are terminal for a token row: no step changes a
\* row, the row a deleteToken call consumed is gone, and a row validateToken
\* returns after a step either was returned before it, unchanged, or is the
\* new row a createToken insert of this step put under a string that had no
\* row. A token is its row: were the 32 random bytes of a deleted row drawn
\* again, the row under them would be a new token.
C27_TerminalStates ==
  [][/\ \A t \in DOMAIN tokens \cap DOMAIN tokens' : tokens'[t] = tokens[t]
     /\ (IsDelete(last') /\ last'.result = "ok") => last'.token \notin DOMAIN tokens'
     /\ \A t \in TokenStrings :
          Validates(tokens', now', t) =>
            \/ Validates(tokens, now, t)
            \/ /\ t \notin DOMAIN tokens
               /\ issued' = issued + 1
               /\ tokens'[t].serial = issued']_vars

\* A row has expired in the table and another was just consumed, with a
\* run of the collector in flight.
C27_Witness ==
  /\ IsDelete(last) /\ last.rowCount = 1
  /\ \E t \in DOMAIN tokens : ~Validates(tokens, now, t)
  /\ issued >= 2
  /\ \E s \in GcSlots : gcRuns[s] # NoRun

\* C28: a reset-password request that passed its guards is answered 401 when
\* the old password is not the one whose hash is stored, else 400 when the
\* new password equals the old one, and neither writes anything; otherwise
\* updatePassword replaces the passwordHash of the calling user's row, and
\* nothing else, before the 200.
C28_ResetPassword ==
  [][\A p \in Procs :
       LET f == procs[p]
           g == procs'[p]
       IN /\ (Starts(p) /\ g.op = "resetPassword" /\ g.sess # Anonymous
                /\ ~CsrfMismatch(g)
                /\ users[g.sess].authStrategy = LOCAL_STRATEGY) =>
               /\ Untouched
               /\ IF users[g.sess].passwordHash # bcryptHash(g.oldPassword)
                    THEN g.pc = "done" /\ g.outcome = 401
                  ELSE IF g.oldPassword = g.password
                    THEN g.pc = "done" /\ g.outcome = 400
                  ELSE g.pc = "updatePassword"
          /\ (f.pc = "updatePassword" /\ g.pc # "updatePassword") =>
               /\ g.pc = "done"
               /\ g.outcome = 200
               /\ users' = [users EXCEPT ![f.sess] =
                    [@ EXCEPT !.passwordHash = bcryptHash(f.password)]]
               /\ users[f.sess].passwordHash # bcryptHash(f.password)
               /\ tokens' = tokens
               /\ sessions' = sessions]_vars

\* A reset to the password just set was answered 400, with a second user
\* in the table.
C28_Witness ==
  \E p \in Procs :
    /\ procs[p].op = "resetPassword"
    /\ procs[p].outcome = 400
    /\ users[procs[p].sess].passwordHash = bcryptHash("pw2")
    /\ Cardinality(DOMAIN users) = 2

\* C29: a request is ended once: a handler that has answered or handed an
\* error to next(error) has done one of the two, once, and a handler still
\* at work has done neither; the logout whose req.logout failed is among them.
C29_OneOutcome ==
  \A p \in Procs :
    /\ procs[p].pc = "done" => procs[p].ended = 1
    /\ procs[p].pc \notin {"done", "idle", "returned", "thrown"} => procs[p].ended = 0

\* C30: isEmailVerified never goes from true to false, and the flag of a
\* local user goes from false to true only in a step that consumes a token
\* validateToken accepts at that step for VERIFY_EMAIL and that this user
\* owns.
C30_VerifiedByOwnToken ==
  [][\A u \in DOMAIN users :
       /\ users[u].isEmailVerified => users'[u].isEmailVerified
       /\ (users[u].authStrategy = LOCAL_STRATEGY
             /\ ~users[u].isEmailVerified /\ users'[u].isEmailVerified) =>
            \E k \in DOMAIN tokens \ DOMAIN tokens' :
              /\ validateToken(tokens, now, k, VERIFY_EMAIL) # Null
              /\ tokens[k].userId = u]_vars

====
